---- MODULE Spec2Model ----
(***************************************************************************)
(* A model of galaxy's service registry (registry.go, notify.go and the    *)
(* registration code) and of its service runtime (runtime.go).             *)
(*                                                                         *)
(* Independent state machines share the module:                            *)
(*   Spec         registry clients working on pools and assignments        *)
(*   SpecApps     registry clients working on apps and assignments         *)
(*   SpecWatch    the change-detection poll loop, its ticker and consumer  *)
(*                (SpecWatchFair, SpecWatchStop, SpecWatchLive: with       *)
(*                fairness)                                                *)
(*   SpecStart    StartIfNotRunning / Start against a container engine     *)
(*   SpecReap     StopAllButLatest and its stop tasks against the engine   *)
(*   SpecLease    RegisterService / UnRegisterService against a backend    *)
(*                with expiring keys and a discrete clock                  *)
(*   SpecRace     two StopAllButLatest passes of one process sharing the   *)
(*                blacklist map                                            *)
(*   SpecList     ListRegistrations, in its two revisions, over records    *)
(*                that writers store, garble and remove                    *)
(*   SpecSubscribe  subscribeChanges, its receive task and its subscribe   *)
(*                task against a connection that can break                 *)
(* Every backend or engine call is one atomic step; the calls of one       *)
(* operation are separate steps, so other processes interleave.            *)
(***************************************************************************)
EXTENDS Integers, Sequences, FiniteSets, TLC

\* ------------------------------------------------------------- bounds
NumPools == 1
NumApps == 1
MaxId == 2

\* Two registry clients: the least that can race.
Clients == {1, 2}
Pools == 1..NumPools
Apps == 1..NumApps
NoApp == 0
NoPool == 0

VARIABLES
    poolSet,   \* members of the set key env/pools/*
    assign,    \* assign[p]: members of the set key env/pools/<p>
    appCfg,    \* appCfg[a]: version id of the stored ServiceConfig, 0 when absent
    idClock,   \* the last version id handed out
    cl         \* cl[c]: registry client c: position, arguments, locals, last result

regVars == <<poolSet, assign, appCfg, idClock, cl>>

\* ---- the watch system of one host (notify.go) and the configs it lists
NumWatchApps == 1
MaxVersion == 3
MaxListErrors == 1

WatchApps == 1..NumWatchApps

VARIABLES
    svcId,        \* svcId[a]: version id of app a's stored config, 0 when absent
    svcClock,     \* the last version id handed out
    ppc,          \* position of checkForChanges
    lastVersion,  \* its lastVersion map; an app never seen reads as 0
    keysLeft,     \* ListApps: enumerated keys whose config is still to be fetched
    cfgs,         \* ListApps: the configs fetched so far, in order
    pos,          \* index in cfgs of the config whose change event is being sent
    tpc,          \* position of checkForChangePeriodically
    spc,          \* position of the subscriber's receive task
    stopSignal,   \* the stop channel has been signalled
    listErrors,   \* failed ListApps calls so far
    polled,       \* a polling pass has ended since the seeding pass
    prevVersion,  \* lastVersion when the current polling pass began
    sentInPass,   \* sentInPass[a]: change events for a sent in the current pass
    lastDelivered \* lastDelivered[a]: version id of the last event received for a

watchVars == <<svcId, svcClock, ppc, lastVersion, keysLeft, cfgs, pos,
               tpc, spc, stopSignal, listErrors, polled, prevVersion, sentInPass,
               lastDelivered>>

\* ---- the service runtime of one host (runtime.go) and its container engine
MaxCfgId == 3
MaxUpdates == 1
MaxContainers == 3
MaxTime == 1
MaxCutoff == 0

\* Start polls the state of the started container this many times.
StartPolls == 5

RtApps == {1}
Images == {1, 2}
Cids == 1..MaxContainers

VARIABLES
    desired,    \* desired[a]: the ServiceConfig of app a stored in the registry
    now,        \* the host's clock, in seconds
    ctr,        \* ctr[c]: the engine's record of the container with id c
    images,     \* the images present locally
    blacklist,  \* blacklistedContainerId
    ag,         \* the agent calling the runtime: position, arguments, locals
    tasks,      \* the stop tasks StopAllButLatest has spawned and not yet forgotten
    hist        \* the results of the agent's last two calls

rtVars == <<desired, now, ctr, images, blacklist, ag, tasks, hist>>

\* ---- one registration path of the backend and the processes that write it
LeaseTTL == 2
MaxLeaseTime == 4

\* The containers registered at the path, each by its own process.
Registrars == {1, 2}
NoTime == -1

VARIABLES
    lnow,     \* the backend's clock, in seconds
    store,    \* the registration key: present or not, its record, its expiry
    lp,       \* lp[c]: the process registering container c: position, locals
    lastReg   \* when the last RegisterService returned a registration, NoTime
              \* when none has since the last delete

leaseVars == <<lnow, store, lp, lastReg>>

\* --------------------------------------------------- subscriber bounds
\* Connections subscribeChanges asks its pool for before the model stops it.
MaxConns == 3
\* Messages the server has sent on the connection and the task has not read.
MaxInbox == 2
\* What is published on the channel: notifyChanged's payload and any other.
Payloads == {"config", "other"}

VARIABLES
    subPc,       \* subscribeChanges: "get", "backoff", "reconnect" or "wait"
    recvPc,      \* the receive task: "none", "receive", "sending" or "done"
    subscribePc, \* the subscribe task: "none", "subscribe" or "done"
    conn,        \* the connection: "none", "open", "broken" or "closed"
    subscribed,  \* the server holds the subscription to "galaxy" on conn
    deferred,    \* conn.Close calls deferred so far, one per connection asked for
    inbox        \* payloads sent to the subscription, not yet received

subVars == <<subPc, recvPc, subscribePc, conn, subscribed, deferred, inbox>>

\* ------------------------------------------------ concurrent passes
\* Two StopAllButLatest passes in one process: the least that can race.
Reapers == {1, 2}

VARIABLES
    rp    \* rp[i]: pass i's position, its snapshot and index, its latest
          \* container, and whether its access to the map overlapped a write

raceVars == <<rp>>

\* ------------------------------------------------------ listing bounds
\* Registration keys under env/*/hosts.
NumRegKeys == 2

RegKeys == 1..NumRegKeys
\* The two revisions of ListRegistrations in the source.
Revisions == {"part_000", "part_001"}

VARIABLES
    recs,  \* recs[k]: "absent", or what the key's location field holds:
           \* "good" (a registration's JSON) or "garbled"
    lr     \* the ListRegistrations call: position, revision, keys still to
           \* get, keys enumerated, keys that failed, list built, error

listVars == <<recs, lr>>

vars == <<regVars, watchVars, rtVars, leaseVars, subVars, raceVars, listVars>>

\* What the steps of one state machine leave alone: the others' variables.
nonRegistry == <<watchVars, rtVars, leaseVars, subVars, raceVars, listVars>>
nonWatch == <<regVars, rtVars, leaseVars, subVars, raceVars, listVars>>
nonRuntime == <<regVars, watchVars, leaseVars, subVars, raceVars, listVars>>
nonLease == <<regVars, watchVars, rtVars, subVars, raceVars, listVars>>
nonSub == <<regVars, watchVars, rtVars, leaseVars, raceVars, listVars>>
nonRace == <<regVars, watchVars, leaseVars, subVars, listVars, desired, now, images, ag,
             tasks, hist>>
nonList == <<regVars, watchVars, rtVars, leaseVars, subVars, raceVars>>

\* ------------------------------------------------------------ registry
IdleClient ==
    [pc |-> "idle", op |-> "none", app |-> NoApp, pool |-> NoPool,
     ok |-> FALSE, err |-> FALSE, todo |-> {}, found |-> FALSE,
     notified |-> FALSE]

\* Pools are created from nothing; the apps that exist were created before.
InitRegistry ==
    /\ poolSet = {}
    /\ assign = [p \in Pools |-> {}]
    /\ appCfg \in [Apps -> {0, 1}]
    /\ idClock = 1
    /\ cl = [c \in Clients |-> IdleClient]

\* Apps are created from nothing; the pools that exist were created before.
InitApps ==
    /\ poolSet \in SUBSET Pools
    /\ assign = [p \in Pools |-> {}]
    /\ appCfg = [a \in Apps |-> 0]
    /\ idClock = 0
    /\ cl = [c \in Clients |-> IdleClient]

\* A call begins: the record of the previous call is replaced.
Begin(op, a, p) ==
    [IdleClient EXCEPT !.op = op, !.app = a, !.pool = p]

\* The call returns (ok, err) to its caller.
Return(r, ok, err) ==
    [r EXCEPT !.pc = "idle", !.ok = ok, !.err = err, !.todo = {}]

\* AppExists: Keys(env/app/*) is non-empty.
AppExistsNever(a) == FALSE

AppExists(a) == appCfg[a] # 0

\* PoolExists: the pool is a key of the map ListPools builds from Members(env/pools/*).
PoolExists(p) == p \in poolSet

\* ListAssignments: Members(env/pools/<pool>).
ListAssignments(p) == assign[p]

\* CreatePool: one AddMember on env/pools/*.
CreatePool(c, p) ==
    /\ cl[c].pc = "idle"
    /\ \/ /\ cl' = [cl EXCEPT ![c] = Return(Begin("CreatePool", NoApp, p), FALSE, TRUE)]
          /\ UNCHANGED <<poolSet, assign, appCfg, idClock, nonRegistry>>
       \/ /\ poolSet' = poolSet \cup {p}
          /\ cl' = [cl EXCEPT ![c] = Return(Begin("CreatePool", NoApp, p), p \notin poolSet, FALSE)]
          /\ UNCHANGED <<assign, appCfg, idClock, nonRegistry>>

\* DeletePool with the length test off by one: a pool with one app is deleted.
DeletePoolRefusesOffByOne(assignments) == Cardinality(assignments) > 1

\* The length test DeletePool makes on the assignments it listed.
DeletePoolRefuses(assignments) == Cardinality(assignments) > 0

\* DeletePool, first call: ListAssignments; a non-empty list ends the call with false.
DeletePoolList(c, p) ==
    /\ cl[c].pc = "idle"
    /\ \/ cl' = [cl EXCEPT ![c] = Return(Begin("DeletePool", NoApp, p), FALSE, TRUE)]
       \/ /\ DeletePoolRefuses(ListAssignments(p))
          /\ cl' = [cl EXCEPT ![c] = Return([Begin("DeletePool", NoApp, p) EXCEPT !.found = TRUE],
                                            FALSE, FALSE)]
       \/ /\ ~DeletePoolRefuses(ListAssignments(p))
          /\ cl' = [cl EXCEPT ![c] = [Begin("DeletePool", NoApp, p) EXCEPT !.pc = "dp_remove"]]
    /\ UNCHANGED <<poolSet, assign, appCfg, idClock, nonRegistry>>

\* DeletePool, second call: RemoveMember on env/pools/*.
DeletePoolRemove(c) ==
    /\ cl[c].pc = "dp_remove"
    /\ \/ /\ cl' = [cl EXCEPT ![c] = Return(cl[c], FALSE, TRUE)]
          /\ UNCHANGED <<poolSet, assign, appCfg, idClock, nonRegistry>>
       \/ /\ poolSet' = poolSet \ {cl[c].pool}
          /\ cl' = [cl EXCEPT ![c] = Return(cl[c], cl[c].pool \in poolSet, FALSE)]
          /\ UNCHANGED <<assign, appCfg, idClock, nonRegistry>>

\* AssignApp, first call: AppExists.
AssignAppExists(c, a, p) ==
    /\ cl[c].pc = "idle"
    /\ \/ cl' = [cl EXCEPT ![c] = Return(Begin("AssignApp", a, p), FALSE, TRUE)]
       \/ /\ ~AppExists(a)
          /\ cl' = [cl EXCEPT ![c] = Return(Begin("AssignApp", a, p), FALSE, FALSE)]
       \/ /\ AppExists(a)
          /\ cl' = [cl EXCEPT ![c] = [Begin("AssignApp", a, p) EXCEPT !.pc = "aa_pool"]]
    /\ UNCHANGED <<poolSet, assign, appCfg, idClock, nonRegistry>>

\* AssignApp, second call: PoolExists.  ListPools also lists each pool's
\* assignments; PoolExists discards them, so only the read of the pool set
\* is a step here.  A missing pool and a failed call both return an error.
AssignAppPool(c) ==
    /\ cl[c].pc = "aa_pool"
    /\ \/ cl' = [cl EXCEPT ![c] = Return(cl[c], FALSE, TRUE)]
       \/ /\ PoolExists(cl[c].pool)
          /\ cl' = [cl EXCEPT ![c].pc = "aa_add"]
    /\ UNCHANGED <<poolSet, assign, appCfg, idClock, nonRegistry>>

\* AddMember's count is 1: the member was not in the set.
AddedAlways(a, members) == TRUE

Added(a, members) == a \notin members

\* AssignApp, third call: AddMember on env/pools/<pool>.
AssignAppAdd(c) ==
    /\ cl[c].pc = "aa_add"
    /\ \/ /\ cl' = [cl EXCEPT ![c] = Return(cl[c], FALSE, TRUE)]
          /\ UNCHANGED <<poolSet, assign, appCfg, idClock, nonRegistry>>
       \/ /\ assign' = [assign EXCEPT ![cl[c].pool] = @ \cup {cl[c].app}]
          /\ cl' = [cl EXCEPT ![c].pc = "aa_notify",
                              ![c].ok = Added(cl[c].app, assign[cl[c].pool])]
          /\ UNCHANGED <<poolSet, appCfg, idClock, nonRegistry>>

\* AssignApp returning what AddMember counted with no NotifyRestart call.
AssignAppNoNotify(c) ==
    /\ cl[c].pc = "aa_notify"
    /\ cl' = [cl EXCEPT ![c] = Return(cl[c], cl[c].ok, FALSE)]
    /\ UNCHANGED <<poolSet, assign, appCfg, idClock, nonRegistry>>

\* AssignApp, last call: NotifyRestart, whatever AddMember counted.
AssignAppNotify(c) ==
    /\ cl[c].pc = "aa_notify"
    /\ \E failed \in BOOLEAN :
          cl' = [cl EXCEPT ![c] = Return([cl[c] EXCEPT !.notified = TRUE], cl[c].ok, failed)]
    /\ UNCHANGED <<poolSet, assign, appCfg, idClock, nonRegistry>>

\* UnassignApp, first call: RemoveMember on env/pools/<pool>.
UnassignAppRemove(c, a, p) ==
    /\ cl[c].pc = "idle"
    /\ \/ /\ cl' = [cl EXCEPT ![c] = Return(Begin("UnassignApp", a, p), FALSE, TRUE)]
          /\ UNCHANGED <<poolSet, assign, appCfg, idClock, nonRegistry>>
       \/ /\ a \notin assign[p]
          /\ cl' = [cl EXCEPT ![c] = Return(Begin("UnassignApp", a, p), FALSE, FALSE)]
          /\ UNCHANGED <<poolSet, assign, appCfg, idClock, nonRegistry>>
       \/ /\ a \in assign[p]
          /\ assign' = [assign EXCEPT ![p] = @ \ {a}]
          /\ cl' = [cl EXCEPT ![c] = [Begin("UnassignApp", a, p) EXCEPT
                                         !.pc = "ua_notify", !.ok = TRUE]]
          /\ UNCHANGED <<poolSet, appCfg, idClock, nonRegistry>>

\* UnassignApp, last call: NotifyRestart.
UnassignAppNotify(c) ==
    /\ cl[c].pc = "ua_notify"
    /\ \E failed \in BOOLEAN :
          cl' = [cl EXCEPT ![c] = Return([cl[c] EXCEPT !.notified = TRUE], cl[c].ok, failed)]
    /\ UNCHANGED <<poolSet, assign, appCfg, idClock, nonRegistry>>

\* CreateApp, first call: AppExists; an existing app ends the call with false.
CreateAppExists(c, a) ==
    /\ cl[c].pc = "idle"
    /\ \/ cl' = [cl EXCEPT ![c] = Return(Begin("CreateApp", a, NoPool), FALSE, TRUE)]
       \/ /\ AppExists(a)
          /\ cl' = [cl EXCEPT ![c] = Return(Begin("CreateApp", a, NoPool), FALSE, FALSE)]
       \/ /\ ~AppExists(a)
          /\ cl' = [cl EXCEPT ![c] = [Begin("CreateApp", a, NoPool) EXCEPT !.pc = "ca_set"]]
    /\ UNCHANGED <<poolSet, assign, appCfg, idClock, nonRegistry>>

\* SetServiceConfig: the config is stored under a fresh version id.
SetServiceConfig(a) ==
    /\ idClock < MaxId
    /\ idClock' = idClock + 1
    /\ appCfg' = [appCfg EXCEPT ![a] = idClock + 1]

\* CreateApp, second call: SetServiceConfig of the empty config.
CreateAppSet(c) ==
    /\ cl[c].pc = "ca_set"
    /\ \/ /\ cl' = [cl EXCEPT ![c] = Return(cl[c], FALSE, TRUE)]
          /\ UNCHANGED <<poolSet, assign, appCfg, idClock, nonRegistry>>
       \/ /\ SetServiceConfig(cl[c].app)
          /\ cl' = [cl EXCEPT ![c] = Return(cl[c], TRUE, FALSE)]
          /\ UNCHANGED <<poolSet, assign, nonRegistry>>

\* DeleteApp, first call: ListPools reads the pool set.
DeleteAppPools(c, a) ==
    /\ cl[c].pc = "idle"
    /\ \/ cl' = [cl EXCEPT ![c] = Return(Begin("DeleteApp", a, NoPool), FALSE, TRUE)]
       \/ cl' = [cl EXCEPT ![c] = [Begin("DeleteApp", a, NoPool) EXCEPT
                                      !.pc = IF poolSet = {} THEN "da_get" ELSE "da_scan",
                                      !.todo = poolSet]]
    /\ UNCHANGED <<poolSet, assign, appCfg, idClock, nonRegistry>>

\* DeleteApp, ListPools lists one pool's assignments; after the last pool the
\* app found in some pool ends the call with an error.
DeleteAppScan(c) ==
    /\ cl[c].pc = "da_scan"
    /\ \/ cl' = [cl EXCEPT ![c] = Return(cl[c], FALSE, TRUE)]
       \/ \E p \in cl[c].todo :
             LET found == cl[c].found \/ cl[c].app \in ListAssignments(p)
                 rest == cl[c].todo \ {p}
             IN  cl' = [cl EXCEPT ![c] =
                           IF rest # {} THEN [cl[c] EXCEPT !.todo = rest, !.found = found]
                           ELSE IF found THEN Return([cl[c] EXCEPT !.found = found], FALSE, TRUE)
                           ELSE [cl[c] EXCEPT !.todo = rest, !.pc = "da_get"]]
    /\ UNCHANGED <<poolSet, assign, appCfg, idClock, nonRegistry>>

\* DeleteApp: GetServiceConfig; a missing config ends the call with true.
DeleteAppGet(c) ==
    /\ cl[c].pc = "da_get"
    /\ \/ cl' = [cl EXCEPT ![c] = Return(cl[c], FALSE, TRUE)]
       \/ /\ ~AppExists(cl[c].app)
          /\ cl' = [cl EXCEPT ![c] = Return(cl[c], TRUE, FALSE)]
       \/ /\ AppExists(cl[c].app)
          /\ cl' = [cl EXCEPT ![c].pc = "da_del"]
    /\ UNCHANGED <<poolSet, assign, appCfg, idClock, nonRegistry>>

\* DeleteApp, last call: DeleteServiceConfig.
DeleteAppDelete(c) ==
    /\ cl[c].pc = "da_del"
    /\ \/ /\ cl' = [cl EXCEPT ![c] = Return(cl[c], FALSE, TRUE)]
          /\ UNCHANGED <<poolSet, assign, appCfg, idClock, nonRegistry>>
       \/ /\ appCfg' = [appCfg EXCEPT ![cl[c].app] = 0]
          /\ cl' = [cl EXCEPT ![c] = Return(cl[c], TRUE, FALSE)]
          /\ UNCHANGED <<poolSet, assign, idClock, nonRegistry>>

\* The pool operations and the assignment operations of concurrent clients.
NextRegistry ==
    \E c \in Clients :
        \/ \E p \in Pools : CreatePool(c, p)
        \/ \E p \in Pools : DeletePoolList(c, p)
        \/ DeletePoolRemove(c)
        \/ \E a \in Apps, p \in Pools : AssignAppExists(c, a, p)
        \/ AssignAppPool(c)
        \/ AssignAppAdd(c)
        \/ AssignAppNotify(c)
        \/ \E a \in Apps, p \in Pools : UnassignAppRemove(c, a, p)
        \/ UnassignAppNotify(c)

\* The app operations and the assignment operations of concurrent clients.
NextApps ==
    \E c \in Clients :
        \/ \E a \in Apps, p \in Pools : AssignAppExists(c, a, p)
        \/ AssignAppPool(c)
        \/ AssignAppAdd(c)
        \/ AssignAppNotify(c)
        \/ \E a \in Apps, p \in Pools : UnassignAppRemove(c, a, p)
        \/ UnassignAppNotify(c)
        \/ \E a \in Apps : CreateAppExists(c, a)
        \/ CreateAppSet(c)
        \/ \E a \in Apps : DeleteAppPools(c, a)
        \/ DeleteAppScan(c)
        \/ DeleteAppGet(c)
        \/ DeleteAppDelete(c)

\* ---------------------------------------------------------------- watch
\* Watch has started its three tasks; some apps exist already.
InitWatch ==
    /\ svcId \in [WatchApps -> {0, 1}]
    /\ svcClock = 1
    /\ ppc = "seed_keys"
    /\ lastVersion = [a \in WatchApps |-> 0]
    /\ keysLeft = {}
    /\ cfgs = <<>>
    /\ pos = 0
    /\ tpc = "select"
    /\ spc = "receive"
    /\ stopSignal = FALSE
    /\ listErrors = 0
    /\ polled = FALSE
    /\ prevVersion = [a \in WatchApps |-> 0]
    /\ sentInPass = [a \in WatchApps |-> 0]
    /\ lastDelivered = [a \in WatchApps |-> 0]

\* The process is alive: a panic in one task ends them all.
Alive == ppc # "crashed"

\* Some client stores a config of app a (create or update) under a new version
\* id, whatever its content.
WriteConfig(a) ==
    /\ svcClock < MaxVersion
    /\ svcClock' = svcClock + 1
    /\ svcId' = [svcId EXCEPT ![a] = svcClock + 1]
    /\ UNCHANGED <<nonWatch, ppc, lastVersion, keysLeft, cfgs, pos, tpc, spc, stopSignal,
                   listErrors, polled, prevVersion, sentInPass, lastDelivered>>

\* Some client deletes app a's config (DeleteApp's DeleteServiceConfig).
RemoveConfig(a) ==
    /\ svcId[a] # 0
    /\ svcId' = [svcId EXCEPT ![a] = 0]
    /\ UNCHANGED <<nonWatch, svcClock, ppc, lastVersion, keysLeft, cfgs, pos, tpc, spc,
                   stopSignal, listErrors, polled, prevVersion, sentInPass,
                   lastDelivered>>

\* The comparison of the poll loop made on every listed config instead.
ChangedAlways(cfg, lv) == TRUE

\* The poll loop's comparison: the config's version id against the remembered one.
Changed(cfg, lv) == cfg.id # lv[cfg.name]

\* The index of the first config of list at or after from that Changed, 0 if none.
NextChanged(list, from, lv) ==
    LET hits == {i \in from..Len(list) : Changed(list[i], lv)}
    IN  IF hits = {} THEN 0 ELSE CHOOSE i \in hits : \A j \in hits : i <= j

\* lastVersion after the seeding loop over list.
Seeded(list, lv) ==
    [a \in WatchApps |->
        IF \E i \in 1..Len(list) : list[i].name = a
        THEN (CHOOSE c \in {list[i] : i \in 1..Len(list)} : c.name = a).id
        ELSE lv[a]]

\* The polling loop holds a complete list: it walks it up to the first changed
\* config, remembers that version and blocks sending the event; with no
\* changed config left it waits for the next trigger.
Walk(list, from) ==
    LET i == NextChanged(list, from, lastVersion)
    IN  IF i = 0
        THEN /\ ppc' = "wait"
             /\ pos' = 0
             /\ polled' = TRUE
             /\ UNCHANGED <<lastVersion, sentInPass>>
        ELSE /\ ppc' = "send"
             /\ pos' = i
             /\ lastVersion' = [lastVersion EXCEPT ![list[i].name] = list[i].id]
             /\ sentInPass' = [sentInPass EXCEPT ![list[i].name] = @ + 1]
             /\ UNCHANGED polled

\* The seeding loop treating its list as the polling loop does.
ListedWalks(list) == Walk(list, 1)

\* ListApps returned list to the loop that called it.
Listed(list) ==
    IF ppc \in {"seed_keys", "seed_get"}
    THEN /\ lastVersion' = Seeded(list, lastVersion)
         /\ ppc' = "wait"
         /\ UNCHANGED <<pos, polled, sentInPass>>
    ELSE Walk(list, 1)

\* ListApps failed: the loop blocks sending the error event.
ListFailed ==
    /\ listErrors < MaxListErrors
    /\ listErrors' = listErrors + 1
    /\ ppc' = IF ppc \in {"seed_keys", "seed_get"} THEN "seed_error" ELSE "poll_error"
    /\ keysLeft' = {}
    /\ cfgs' = <<>>
    /\ UNCHANGED <<lastVersion, pos, polled, sentInPass>>

\* ListApps, first call: Keys(env/*/environment).
ListAppsKeys ==
    /\ ppc \in {"seed_keys", "poll_keys"}
    /\ \/ ListFailed
       \/ LET keys == {a \in WatchApps : svcId[a] # 0}
          IN  /\ keysLeft' = keys
              /\ cfgs' = <<>>
              /\ UNCHANGED listErrors
              /\ IF keys = {}
                 THEN Listed(<<>>)
                 ELSE /\ ppc' = IF ppc = "seed_keys" THEN "seed_get" ELSE "poll_get"
                      /\ UNCHANGED <<lastVersion, pos, polled, sentInPass>>
    /\ UNCHANGED <<nonWatch, svcId, svcClock, tpc, spc, stopSignal, prevVersion,
                   lastDelivered>>

\* ListApps, GetServiceConfig of one enumerated key.  A config deleted since
\* the enumeration comes back nil with no error and *cfg panics.
ListAppsGet ==
    /\ ppc \in {"seed_get", "poll_get"}
    /\ \/ ListFailed
       \/ \E a \in keysLeft :
             IF svcId[a] = 0
             THEN /\ ppc' = "crashed"
                  /\ UNCHANGED <<keysLeft, cfgs, lastVersion, pos, polled, sentInPass,
                                 listErrors>>
             ELSE LET list == Append(cfgs, [name |-> a, id |-> svcId[a]])
                  IN  /\ keysLeft' = keysLeft \ {a}
                      /\ cfgs' = list
                      /\ UNCHANGED listErrors
                      /\ IF keysLeft = {a}
                         THEN Listed(list)
                         ELSE UNCHANGED <<ppc, lastVersion, pos, polled, sentInPass>>
    /\ UNCHANGED <<nonWatch, svcId, svcClock, tpc, spc, stopSignal, prevVersion,
                   lastDelivered>>

\* The consumer receives the change event the polling loop is sending; the
\* loop goes on with the rest of the list.
DeliverChange ==
    /\ ppc = "send"
    /\ lastDelivered' = [lastDelivered EXCEPT ![cfgs[pos].name] = cfgs[pos].id]
    /\ Walk(cfgs, pos + 1)
    /\ UNCHANGED <<nonWatch, svcId, svcClock, keysLeft, cfgs, tpc, spc, stopSignal,
                   listErrors, prevVersion>>

\* The consumer receives an error event; the seeding loop sleeps and lists
\* again, the polling loop waits for the next trigger.
DeliverError ==
    /\ ppc \in {"seed_error", "poll_error"}
    /\ ppc' = IF ppc = "seed_error" THEN "seed_keys" ELSE "wait"
    /\ polled' = (polled \/ ppc = "poll_error")
    /\ UNCHANGED <<nonWatch, svcId, svcClock, lastVersion, keysLeft, cfgs, pos, tpc,
                   spc, stopSignal, listErrors, prevVersion, sentInPass, lastDelivered>>

\* A trigger is taken from pollCh: a polling pass begins.
BeginPass ==
    /\ ppc = "wait"
    /\ ppc' = "poll_keys"
    /\ keysLeft' = {}
    /\ cfgs' = <<>>
    /\ prevVersion' = lastVersion
    /\ sentInPass' = [a \in WatchApps |-> 0]
    /\ UNCHANGED <<nonWatch, svcId, svcClock, lastVersion, pos, stopSignal,
                   listErrors, polled, lastDelivered>>

\* The ticker fires: checkForChangePeriodically calls CheckForChangesNow.
Tick ==
    /\ Alive
    /\ tpc = "select"
    /\ tpc' = "sending"
    /\ UNCHANGED <<nonWatch, svcId, svcClock, ppc, lastVersion, keysLeft, cfgs, pos,
                   spc, stopSignal, listErrors, polled, prevVersion, sentInPass,
                   lastDelivered>>

\* The ticker's send on pollCh meets the polling loop's receive.
TickerTrigger ==
    /\ tpc = "sending"
    /\ tpc' = "select"
    /\ BeginPass
    /\ UNCHANGED spc

\* The caller of Watch signals stop.
SignalStop ==
    /\ ~stopSignal
    /\ stopSignal' = TRUE
    /\ UNCHANGED <<nonWatch, svcId, svcClock, ppc, lastVersion, keysLeft, cfgs, pos,
                   tpc, spc, listErrors, polled, prevVersion, sentInPass, lastDelivered>>

\* The ticker task takes the stop signal in its select and returns.
TakeStop ==
    /\ Alive
    /\ stopSignal
    /\ tpc = "select"
    /\ tpc' = "stopped"
    /\ UNCHANGED <<nonWatch, svcId, svcClock, ppc, lastVersion, keysLeft, cfgs, pos,
                   spc, stopSignal, listErrors, polled, prevVersion, sentInPass,
                   lastDelivered>>

\* The subscriber receives a "config" message and calls CheckForChangesNow.
SubscriberMessage ==
    /\ Alive
    /\ spc = "receive"
    /\ spc' = "sending"
    /\ UNCHANGED <<nonWatch, svcId, svcClock, ppc, lastVersion, keysLeft, cfgs, pos,
                   tpc, stopSignal, listErrors, polled, prevVersion, sentInPass,
                   lastDelivered>>

\* The subscriber's send on pollCh meets the polling loop's receive.
SubscriberTrigger ==
    /\ spc = "sending"
    /\ spc' = "receive"
    /\ BeginPass
    /\ UNCHANGED tpc

\* The watching process, the registry's writers and the caller of Watch.
NextWatch ==
    \/ ListAppsKeys
    \/ ListAppsGet
    \/ DeliverChange
    \/ DeliverError
    \/ Tick
    \/ TickerTrigger
    \/ TakeStop
    \/ SubscriberMessage
    \/ SubscriberTrigger
    \/ SignalStop
    \/ \E a \in WatchApps : WriteConfig(a)
    \/ \E a \in WatchApps : RemoveConfig(a)

\* The scheduler runs every task that can take a step, the ticker keeps
\* firing and the consumer keeps receiving; messages of the subscription may
\* never come.
FairWatch ==
    /\ WF_vars(ListAppsKeys)
    /\ WF_vars(ListAppsGet)
    /\ WF_vars(DeliverChange)
    /\ WF_vars(DeliverError)
    /\ WF_vars(Tick)
    /\ WF_vars(TickerTrigger)

\* The scheduler runs the polling task when it can take a step, a trigger the
\* ticker is sending is taken by a polling loop that comes to wait for one
\* again and again (senders queue on the channel), and the ticker's select
\* takes a ready stop sooner or later; nothing is assumed of the consumer of
\* the changes channel.
FairTicker ==
    /\ WF_vars(ListAppsKeys)
    /\ WF_vars(ListAppsGet)
    /\ SF_vars(TickerTrigger)
    /\ SF_vars(TakeStop)

\* The scheduler runs the polling task when it can take a step, the consumer
\* keeps receiving, and a sender blocked on pollCh is served by a polling
\* loop that comes to receive again and again (senders queue on the channel).
FairChannel ==
    /\ WF_vars(ListAppsKeys)
    /\ WF_vars(ListAppsGet)
    /\ WF_vars(DeliverChange)
    /\ WF_vars(DeliverError)
    /\ SF_vars(TickerTrigger)
    /\ SF_vars(SubscriberTrigger)

\* -------------------------------------------------------------- runtime
\* A container id the engine has not handed out.
NoContainer == [state |-> "none", name |-> <<0, 0>>, image |-> 0, created |-> 0]

\* The agent between two calls.
IdleAgent ==
    [pc |-> "idle", cfg |-> [name |-> 0, id |-> 0, image |-> 0], handle |-> 0,
     polls |-> 0, created |-> 0, inspectErr |-> FALSE, fresh |-> FALSE, other |-> FALSE,
     cfgsLeft |-> <<>>, snap |-> <<>>, latest |-> 0, idx |-> 0, cutoff |-> 0]

\* No call made yet.
NoCall ==
    [kind |-> "none", cfg |-> [name |-> 0, id |-> 0, image |-> 0], changed |-> FALSE,
     err |-> FALSE, handle |-> 0, created |-> 0, inspectErr |-> FALSE,
     fresh |-> FALSE, other |-> FALSE]

\* A host with an empty engine; every app has its first config.
InitRuntime ==
    /\ desired = [a \in RtApps |-> [name |-> a, id |-> 1, image |-> 1]]
    /\ now = 0
    /\ ctr = [c \in Cids |-> NoContainer]
    /\ images = {}
    /\ blacklist = {}
    /\ ag = IdleAgent
    /\ tasks = {}
    /\ hist = [prev |-> NoCall, last |-> NoCall]

\* ServiceConfig.ContainerName: the app's name and the config's version id.
ContainerName(cfg) == <<cfg.name, cfg.id>>

\* ServiceConfig.IsContainerVersion: the name is one of this app's containers.
IsContainerVersion(cfg, name) == name[1] = cfg.name

\* The containers the engine holds, and the one of a given name.
Existing == {c \in Cids : ctr[c].state \in {"created", "running"}}

Named(name) == {c \in Existing : ctr[c].name = name}

\* InspectContainer(name): the container, no-such-container, or another error.
InspectOutcomes(name) ==
    {"err"} \cup (IF Named(name) = {} THEN {"nosuch"} ELSE {"found"})

\* The sequences that list every member of a set once.
RECURSIVE Orderings(_)
Orderings(S) ==
    IF S = {} THEN {<<>>}
    ELSE UNION {{<<x>> \o t : t \in Orderings(S \ {x})} : x \in S}

\* The agent's call returns: its result becomes the last one.
Finish(kind, changed, handle, err) ==
    /\ hist' = [prev |-> hist.last,
                last |-> [kind |-> kind, cfg |-> ag.cfg, changed |-> changed,
                          err |-> err, handle |-> handle, created |-> ag.created,
                          inspectErr |-> ag.inspectErr, fresh |-> ag.fresh,
                          other |-> ag.other]]
    /\ ag' = IdleAgent

\* A config of app a is stored under the next version id.
UpdateConfig(a) ==
    /\ desired[a].id <= MaxUpdates
    /\ \E i \in Images :
         desired' = [desired EXCEPT ![a] = [name |-> a, id |-> @.id + 1, image |-> i]]
    /\ UNCHANGED <<nonRuntime, now, ctr, images, blacklist, ag, tasks, hist>>

\* A second passes.
ClockTick ==
    /\ now < MaxTime
    /\ now' = now + 1
    /\ UNCHANGED <<nonRuntime, desired, ctr, images, blacklist, ag, tasks, hist>>

\* The process of a running container ends by itself.
ContainerExits(c) ==
    /\ ctr[c].state = "running"
    /\ ctr' = [ctr EXCEPT ![c].state = "created"]
    /\ UNCHANGED <<nonRuntime, desired, now, images, blacklist, ag, tasks, hist>>

\* StartIfNotRunning's decision to call Start, from its inspection's result.
StartNeededAlways(outcome) == TRUE

StartNeeded(outcome) == outcome \in {"nosuch", "err"}

\* StartIfNotRunning(desired[a]): inspect the expected container, return
\* changed=false when it is there, else go on into Start.
StartIfNotRunning(a) ==
    /\ ag.pc = "idle"
    /\ LET cfg == desired[a]
           name == ContainerName(cfg)
       IN \E outcome \in InspectOutcomes(name) :
            LET begun == [ag EXCEPT !.cfg = cfg, !.fresh = Named(name) = {},
                              !.inspectErr = outcome = "err",
                              !.other = \E c \in Cids : /\ ctr[c].state = "running"
                                                        /\ ctr[c].name[1] = a
                                                        /\ ctr[c].name # name]
            IN IF StartNeeded(outcome)
               THEN /\ ag' = [begun EXCEPT !.pc = "start_image"]
                    /\ UNCHANGED hist
               ELSE /\ hist' = [prev |-> hist.last,
                                last |-> [kind |-> "start", cfg |-> cfg,
                                          changed |-> FALSE, err |-> FALSE,
                                          handle |-> CHOOSE c \in Named(name) : TRUE,
                                          created |-> 0, inspectErr |-> FALSE,
                                          fresh |-> FALSE, other |-> begun.other]]
                    /\ ag' = IdleAgent
    /\ UNCHANGED <<nonRuntime, desired, now, ctr, images, blacklist, tasks>>

\* PullImage's InspectImage: an error ends Start, a present image is used,
\* an absent one is pulled.
StartInspectImage ==
    /\ ag.pc = "start_image"
    /\ \E outcome \in {"err", IF ag.cfg.image \in images THEN "present" ELSE "absent"} :
         CASE outcome = "err" -> Finish("start", TRUE, 0, TRUE)
           [] outcome = "present" -> ag' = [ag EXCEPT !.pc = "start_list"] /\ UNCHANGED hist
           [] outcome = "absent" -> ag' = [ag EXCEPT !.pc = "start_pull"] /\ UNCHANGED hist
    /\ UNCHANGED <<nonRuntime, desired, now, ctr, images, blacklist, tasks>>

\* PullImage's pull.
StartPull ==
    /\ ag.pc = "start_pull"
    /\ \/ Finish("start", TRUE, 0, TRUE) /\ UNCHANGED images
       \/ /\ images' = images \cup {ag.cfg.image}
          /\ ag' = [ag EXCEPT !.pc = "start_reinspect"]
          /\ UNCHANGED hist
    /\ UNCHANGED <<nonRuntime, desired, now, ctr, blacklist, tasks>>

\* PullImage's second InspectImage.
StartReinspect ==
    /\ ag.pc = "start_reinspect"
    /\ \/ Finish("start", TRUE, 0, TRUE)
       \/ ag' = [ag EXCEPT !.pc = "start_list"] /\ UNCHANGED hist
    /\ UNCHANGED <<nonRuntime, desired, now, ctr, images, blacklist, tasks>>

\* Start's ListApps, for the environment of the new container.
StartListApps ==
    /\ ag.pc = "start_list"
    /\ \/ Finish("start", TRUE, 0, TRUE)
       \/ ag' = [ag EXCEPT !.pc = "start_inspect"] /\ UNCHANGED hist
    /\ UNCHANGED <<nonRuntime, desired, now, ctr, images, blacklist, tasks>>

\* Start's InspectContainer by name.
StartInspect ==
    /\ ag.pc = "start_inspect"
    /\ \E outcome \in InspectOutcomes(ContainerName(ag.cfg)) :
         CASE outcome = "err" -> Finish("start", TRUE, 0, TRUE)
           [] outcome = "found" ->
                /\ ag' = [ag EXCEPT !.pc = "start_run",
                              !.handle = CHOOSE c \in Named(ContainerName(ag.cfg)) : TRUE]
                /\ UNCHANGED hist
           [] outcome = "nosuch" -> ag' = [ag EXCEPT !.pc = "start_create"] /\ UNCHANGED hist
    /\ UNCHANGED <<nonRuntime, desired, now, ctr, images, blacklist, tasks>>

\* The ids the engine has not handed out yet.
FreeCids == {c \in Cids : ctr[c].state = "none"}

\* The engine's record of a container just created for cfg at time t.
NewContainerUnnamed(cfg, t) ==
    [state |-> "created", name |-> <<cfg.name, 0>>, image |-> cfg.image, created |-> t]

NewContainer(cfg, t) ==
    [state |-> "created", name |-> ContainerName(cfg), image |-> cfg.image, created |-> t]

\* Start's CreateContainer, when no container of the name was found.
StartCreate ==
    /\ ag.pc = "start_create"
    /\ \/ Finish("start", TRUE, 0, TRUE) /\ UNCHANGED ctr
       \/ /\ FreeCids # {}
          /\ Named(ContainerName(ag.cfg)) = {}
          /\ LET c == CHOOSE x \in FreeCids : \A y \in FreeCids : x <= y
             IN /\ ctr' = [ctr EXCEPT ![c] = NewContainer(ag.cfg, now)]
                /\ ag' = [ag EXCEPT !.pc = "start_run", !.handle = c, !.created = 1]
          /\ UNCHANGED hist
    /\ UNCHANGED <<nonRuntime, desired, now, images, blacklist, tasks>>

\* Start's StartContainer: on an error the handle is returned with it.
StartContainer ==
    /\ ag.pc = "start_run"
    /\ \/ Finish("start", TRUE, ag.handle, TRUE) /\ UNCHANGED ctr
       \/ /\ ctr[ag.handle].state \in {"created", "running"}
          /\ ctr' = [ctr EXCEPT ![ag.handle].state = "running"]
          /\ ag' = [ag EXCEPT !.pc = "start_poll"]
          /\ UNCHANGED hist
    /\ UNCHANGED <<nonRuntime, desired, now, images, blacklist, tasks>>

\* One of Start's state polls.  The first inspection after StartContainer is
\* overwritten by the first poll and is left out.  A failed inspection leaves
\* no container to read the state of: the process panics.
StartPoll ==
    /\ ag.pc = "start_poll"
    /\ \E outcome \in {"err", IF ctr[ag.handle].state = "running"
                              THEN "running" ELSE "stopped"} :
         CASE outcome = "err" ->
                /\ ag' = [ag EXCEPT !.pc = "crashed"]
                /\ UNCHANGED hist
           [] outcome = "stopped" -> Finish("start", TRUE, 0, TRUE)
           [] outcome = "running" ->
                IF ag.polls + 1 = StartPolls
                THEN Finish("start", TRUE, ag.handle, FALSE)
                ELSE ag' = [ag EXCEPT !.polls = @ + 1] /\ UNCHANGED hist
    /\ UNCHANGED <<nonRuntime, desired, now, ctr, images, blacklist, tasks>>

\* ---- StopAllButLatest
\* The value of the loop variable `container`: the element the inner loop is
\* at, and the last one once the loop is over.
LoopVar ==
    IF ag.snap = <<>> THEN 0
    ELSE IF ag.idx <= Len(ag.snap) THEN ag.snap[ag.idx] ELSE ag.snap[Len(ag.snap)]

\* The inner loop's test of snapshot entry c against the app's config and its
\* latest container, made at time t.
Eligible(c, cfg, latest, cutoff, t) ==
    /\ IsContainerVersion(cfg, ctr[c].name)
    /\ ctr[c].image = cfg.image
    /\ c # latest
    /\ ctr[c].created < t - cutoff

\* The stop tasks of an inner loop that has ended keep the last value of its
\* loop variable.
Frozen(ts) ==
    {IF t.ref = 0 THEN [t EXCEPT !.ref = LoopVar, !.cur = FALSE] ELSE t : t \in ts}

\* The pass returns.
ReapReturn(err) ==
    /\ hist' = [prev |-> hist.last,
                last |-> [NoCall EXCEPT !.kind = "reap", !.err = err]]
    /\ ag' = IdleAgent

\* StopAllButLatest(cutoff) begins: ListApps.
ReapListApps(cutoff) ==
    /\ ag.pc = "idle"
    /\ \/ ReapReturn(TRUE)
       \/ /\ ag' = [ag EXCEPT !.pc = "reap_containers", !.cutoff = cutoff,
                        !.cfgsLeft = [a \in RtApps |-> desired[a]]]
          /\ UNCHANGED hist
    /\ UNCHANGED <<nonRuntime, desired, now, ctr, images, blacklist, tasks>>

\* ListContainers(All: false): the running containers, in the engine's order.
ReapListContainers ==
    /\ ag.pc = "reap_containers"
    /\ \/ ReapReturn(TRUE)
       \/ /\ \E order \in Orderings({c \in Cids : ctr[c].state = "running"}) :
               ag' = [ag EXCEPT !.pc = "reap_latest", !.snap = order]
          /\ UNCHANGED hist
    /\ UNCHANGED <<nonRuntime, desired, now, ctr, images, blacklist, tasks>>

\* The outer loop is at the next app: inspect its latest container.  Only
\* no-such-container skips the app; after another error there is no latest
\* container.
ReapInspectLatest ==
    /\ ag.pc = "reap_latest"
    /\ IF ag.cfgsLeft = <<>>
       THEN ReapReturn(FALSE)
       ELSE /\ \E outcome \in InspectOutcomes(ContainerName(Head(ag.cfgsLeft))) :
                 CASE outcome = "nosuch" -> ag' = [ag EXCEPT !.cfgsLeft = Tail(@)]
                   [] outcome = "found" ->
                        ag' = [ag EXCEPT !.pc = "reap_scan", !.idx = 1,
                                 !.latest = CHOOSE c \in Named(ContainerName(Head(ag.cfgsLeft))) : TRUE]
                   [] outcome = "err" ->
                        ag' = [ag EXCEPT !.pc = "reap_scan", !.idx = 1, !.latest = 0]
            /\ UNCHANGED hist
    /\ UNCHANGED <<nonRuntime, desired, now, ctr, images, blacklist, tasks>>

\* The inner loop is over: on to the next app.
ReapNextApp ==
    /\ ag.pc = "reap_scan"
    /\ ag.idx > Len(ag.snap)
    /\ tasks' = Frozen(tasks)
    /\ ag' = [ag EXCEPT !.pc = "reap_latest", !.cfgsLeft = Tail(@), !.latest = 0, !.idx = 0]
    /\ UNCHANGED <<nonRuntime, desired, now, ctr, images, blacklist, hist>>

\* One turn of the inner loop up to the stop: the entry is passed over, or a
\* stop task is spawned for it and the loop waits.  With no latest container
\* the comparison of the ids panics.
ReapScan ==
    /\ ag.pc = "reap_scan"
    /\ ag.idx <= Len(ag.snap)
    /\ LET c == ag.snap[ag.idx]
           cfg == Head(ag.cfgsLeft)
       IN IF IsContainerVersion(cfg, ctr[c].name) /\ ctr[c].image = cfg.image /\ ag.latest = 0
          THEN /\ ag' = [ag EXCEPT !.pc = "crashed"]
               /\ UNCHANGED tasks
          ELSE IF Eligible(c, cfg, ag.latest, ag.cutoff, now) /\ c \notin blacklist
          THEN /\ tasks' = tasks \cup {[for |-> c, ref |-> 0, phase |-> "spawned",
                                         target |-> 0, cur |-> TRUE, cfg |-> cfg,
                                         latest |-> ag.latest, cutoff |-> ag.cutoff]}
               /\ ag' = [ag EXCEPT !.pc = "reap_wait"]
          ELSE /\ ag' = [ag EXCEPT !.idx = @ + 1]
               /\ UNCHANGED tasks
    /\ UNCHANGED <<nonRuntime, desired, now, ctr, images, blacklist, hist>>

\* The spawned task runs: it reads the loop variable as it is by now and
\* issues StopContainer for that id.
TaskIssue(t) ==
    /\ t \in tasks
    /\ t.phase = "spawned"
    /\ tasks' = (tasks \ {t}) \cup
                  {[t EXCEPT !.phase = "issued",
                             !.target = IF t.ref = 0 THEN LoopVar ELSE t.ref]}
    /\ UNCHANGED <<nonRuntime, desired, now, ctr, images, blacklist, ag, hist>>

\* The engine answers a stop: the container is stopped, or the call failed.
\* The answer goes to the task's channel, which nobody reads after a timeout.
TaskDone(t) ==
    /\ t \in tasks
    /\ t.phase = "issued"
    /\ \E outcome \in {"err"} \cup (IF ctr[t.target].state = "running" THEN {"ok"} ELSE {}) :
         /\ ctr' = IF outcome = "ok" THEN [ctr EXCEPT ![t.target].state = "created"] ELSE ctr
         /\ tasks' = (tasks \ {t}) \cup (IF t.cur THEN {[t EXCEPT !.phase = outcome]} ELSE {})
    /\ UNCHANGED <<nonRuntime, desired, now, images, blacklist, ag, hist>>

\* The task the inner loop is waiting for.
CurrentTask == {t \in tasks : t.cur}

\* The wait going on to the removal whatever the stop answered.
ReapResultAlwaysRemoves ==
    /\ ag.pc = "reap_wait"
    /\ \E t \in CurrentTask :
         /\ t.phase \in {"ok", "err"}
         /\ tasks' = tasks \ {t}
         /\ ag' = [ag EXCEPT !.pc = "reap_remove"]
    /\ UNCHANGED <<nonRuntime, desired, now, ctr, images, blacklist, hist>>

\* The wait receives the stop's answer: after an error the loop goes on, after
\* a success the container is removed.
ReapResult ==
    /\ ag.pc = "reap_wait"
    /\ \E t \in CurrentTask :
         /\ t.phase \in {"ok", "err"}
         /\ tasks' = tasks \ {t}
         /\ ag' = IF t.phase = "ok" THEN [ag EXCEPT !.pc = "reap_remove"]
                  ELSE [ag EXCEPT !.pc = "reap_scan", !.idx = @ + 1]
    /\ UNCHANGED <<nonRuntime, desired, now, ctr, images, blacklist, hist>>

\* The wait's 20 seconds are over first: blacklist the container, go on.
ReapTimeout ==
    /\ ag.pc = "reap_wait"
    /\ blacklist' = blacklist \cup {ag.snap[ag.idx]}
    /\ tasks' = {[t EXCEPT !.cur = FALSE] : t \in {u \in tasks : u.phase \in {"spawned", "issued"}}}
    /\ ag' = [ag EXCEPT !.pc = "reap_scan", !.idx = @ + 1]
    /\ UNCHANGED <<nonRuntime, desired, now, ctr, images, hist>>

\* RemoveContainer with volumes; its result is not looked at.
ReapRemove ==
    /\ ag.pc = "reap_remove"
    /\ \/ UNCHANGED ctr
       \/ /\ ctr[ag.snap[ag.idx]].state \in {"created", "running"}
          /\ ctr' = [ctr EXCEPT ![ag.snap[ag.idx]].state = "removed"]
    /\ ag' = [ag EXCEPT !.pc = "reap_scan", !.idx = @ + 1]
    /\ UNCHANGED <<nonRuntime, desired, now, images, blacklist, tasks, hist>>

\* An engine as earlier calls of Start have left it: containers of some of the
\* app's versions, created in the order of the versions, running or stopped.
InitReap ==
    /\ \E vs \in {v \in SUBSET (1..MaxCfgId) : Cardinality(v) <= MaxContainers} :
       \E img \in [1..MaxCfgId -> Images] :
       \E born \in [1..MaxCfgId -> 0..MaxTime] :
       \E up \in SUBSET vs :
       \E id \in 1..MaxCfgId :
         /\ \A v \in vs : v <= id
         /\ \A v, w \in 1..MaxCfgId : v <= w => born[v] <= born[w]
         /\ desired = [a \in RtApps |-> [name |-> a, id |-> id, image |-> img[id]]]
         /\ now \in born[MaxCfgId]..MaxTime
         /\ ctr = [c \in Cids |->
                     IF c <= Cardinality(vs)
                     THEN LET v == CHOOSE x \in vs : Cardinality({y \in vs : y <= x}) = c
                          IN [state |-> IF v \in up THEN "running" ELSE "created",
                              name |-> <<1, v>>, image |-> img[v], created |-> born[v]]
                     ELSE NoContainer]
    /\ images = Images
    /\ blacklist = {}
    /\ ag = IdleAgent
    /\ tasks = {}
    /\ hist = [prev |-> NoCall, last |-> NoCall]

\* The agent starting containers, the containers, the registry's writers.
NextStart ==
    \/ \E a \in RtApps : StartIfNotRunning(a)
    \/ StartInspectImage
    \/ StartPull
    \/ StartReinspect
    \/ StartListApps
    \/ StartInspect
    \/ StartCreate
    \/ StartContainer
    \/ StartPoll
    \/ \E a \in RtApps : UpdateConfig(a)
    \/ \E c \in Cids : ContainerExits(c)

\* The agent reaping, its stop tasks, the clock.  The containers that have
\* exited are those the initial state holds stopped.
NextReap ==
    \/ \E cutoff \in 0..MaxCutoff : ReapListApps(cutoff)
    \/ ReapListContainers
    \/ ReapInspectLatest
    \/ ReapNextApp
    \/ ReapScan
    \/ ReapResult
    \/ ReapTimeout
    \/ ReapRemove
    \/ \E t \in tasks : TaskIssue(t)
    \/ \E t \in tasks : TaskDone(t)
    \/ ClockTick

\* ---------------------------------------------------------------- lease
\* The key of the path when it does not exist.
NoKey == [present |-> FALSE, cid |-> 0, expireAt |-> 0]

\* A backend without registrations.
InitLease ==
    /\ lnow = 0
    /\ store = NoKey
    /\ lp = [c \in Registrars |-> [pc |-> "idle"]]
    /\ lastReg = NoTime

\* backend.Get(path, "location"): the container id of the stored record, 0
\* for the empty string of a missing key.
Location == IF store.present THEN store.cid ELSE 0

\* GetServiceRegistration and IsRegistered find a registration.
Retrievable == Location # 0

\* backend.Set(path, "location", json) for container c: writes the field,
\* creates the key when it is missing, leaves the key's expiry as it is.
BackendSet(c) == [present |-> TRUE, cid |-> c, expireAt |-> store.expireAt]

\* backend.Expire(path, ttl): an existing key expires ttl seconds from now.
BackendExpire(ttl) == IF store.present THEN [store EXCEPT !.expireAt = lnow + ttl] ELSE store

\* RegisterService for container c, up to its Set.
RegisterSet(c) ==
    /\ lp[c].pc = "idle"
    /\ \/ UNCHANGED <<store, lp>>
       \/ /\ store' = BackendSet(c)
          /\ lp' = [lp EXCEPT ![c].pc = "reg_expire"]
    /\ UNCHANGED <<nonLease, lnow, lastReg>>

\* RegisterService's Expire and return.
RegisterExpire(c) ==
    /\ lp[c].pc = "reg_expire"
    /\ \/ UNCHANGED <<store, lastReg>>
       \/ /\ store' = BackendExpire(LeaseTTL)
          /\ lastReg' = lnow
    /\ lp' = [lp EXCEPT ![c].pc = "idle"]
    /\ UNCHANGED <<nonLease, lnow>>

\* UnRegisterService for container c: GetServiceRegistration's Get.  It
\* returns on an error, on a missing registration before the expiry is read,
\* and goes on to read the expiry of a registration it found.
UnRegisterGet(c) ==
    /\ lp[c].pc = "idle"
    /\ \/ UNCHANGED lp
       \/ /\ Location # 0
          /\ lp' = [lp EXCEPT ![c] = [pc |-> "unreg_ttl", seen |-> Location]]
    /\ UNCHANGED <<nonLease, lnow, store, lastReg>>

\* GetServiceRegistration's Ttl, then the comparison of the container ids:
\* the registration of another container is left alone.
UnRegisterTtl(c) ==
    /\ lp[c].pc = "unreg_ttl"
    /\ \/ lp' = [lp EXCEPT ![c] = [pc |-> "idle"]]
       \/ /\ lp[c].seen = c
          /\ lp' = [lp EXCEPT ![c] = [pc |-> "unreg_delete"]]
    /\ UNCHANGED <<nonLease, lnow, store, lastReg>>

\* UnRegisterService's Delete and return.
UnRegisterDelete(c) ==
    /\ lp[c].pc = "unreg_delete"
    /\ \/ UNCHANGED <<store, lastReg>>
       \/ /\ store' = NoKey
          /\ lastReg' = NoTime
    /\ lp' = [lp EXCEPT ![c].pc = "idle"]
    /\ UNCHANGED <<nonLease, lnow>>

\* The process registering container c stops, wherever it is.
ProcessStops(c) ==
    /\ lp[c].pc # "stopped"
    /\ lp' = [lp EXCEPT ![c] = [pc |-> "stopped"]]
    /\ UNCHANGED <<nonLease, lnow, store, lastReg>>

\* A second passes; the backend removes the key when its expiry is reached.
LeaseTick ==
    /\ lnow < MaxLeaseTime
    /\ lnow' = lnow + 1
    /\ store' = IF store.present /\ store.expireAt = lnow + 1 THEN NoKey ELSE store
    /\ UNCHANGED <<nonLease, lp, lastReg>>

\* The registering processes, their failures, the clock.
NextLease ==
    \/ \E c \in Registrars : RegisterSet(c)
    \/ \E c \in Registrars : RegisterExpire(c)
    \/ \E c \in Registrars : UnRegisterGet(c)
    \/ \E c \in Registrars : UnRegisterTtl(c)
    \/ \E c \in Registrars : UnRegisterDelete(c)
    \/ \E c \in Registrars : ProcessStops(c)
    \/ LeaseTick

\* ---------------------------------------------------- concurrent passes
\* A pass that has not begun.
IdleReaper == [pc |-> "idle", snap |-> <<>>, idx |-> 0, latest |-> 0, raced |-> FALSE]

\* No pass of the second kind is running.
QuietRace == rp = [i \in Reapers |-> IdleReaper]

\* An engine with a running container for each of the app's versions so far,
\* the last one the latest, all of them older than any cutoff.
InitRace ==
    /\ desired = [a \in RtApps |-> [name |-> a, id |-> MaxContainers, image |-> 1]]
    /\ now = MaxTime
    /\ ctr = [c \in Cids |->
                [state |-> "running", name |-> <<1, c>>, image |-> 1, created |-> 0]]
    /\ images = Images
    /\ blacklist = {}
    /\ ag = IdleAgent
    /\ tasks = {}
    /\ hist = [prev |-> NoCall, last |-> NoCall]
    /\ QuietRace

\* No pass has panicked, which ends the process.
RaceAlive == \A i \in Reapers : rp[i].pc # "crashed"

\* The process ends with a panic or a fatal error of the runtime.
Crashed == [i \in Reapers |-> [rp[i] EXCEPT !.pc = "crashed"]]

\* The container pass i's inner loop is at.
ReaperAt(i) == rp[i].snap[rp[i].idx]

\* Pass i goes on to the next entry of its snapshot.
ReaperNext(i) == [rp EXCEPT ![i].pc = "scan", ![i].idx = @ + 1, ![i].raced = FALSE]

\* Pass i begins: ListApps, then ListContainers(All: false).
RaceList(i) ==
    /\ RaceAlive
    /\ rp[i].pc = "idle"
    /\ \E order \in Orderings({c \in Cids : ctr[c].state = "running"}) :
         rp' = [rp EXCEPT ![i] = [IdleReaper EXCEPT !.pc = "latest", !.snap = order]]
    /\ UNCHANGED <<nonRace, ctr, blacklist>>

\* Pass i inspects the app's latest container; no-such-container ends the
\* pass, the one app being passed over.
RaceInspectLatest(i) ==
    /\ RaceAlive
    /\ rp[i].pc = "latest"
    /\ \E outcome \in InspectOutcomes(ContainerName(desired[1])) :
         CASE outcome = "nosuch" -> rp' = [rp EXCEPT ![i] = IdleReaper]
           [] outcome = "found" ->
                rp' = [rp EXCEPT ![i].pc = "scan", ![i].idx = 1,
                         ![i].latest = CHOOSE c \in Named(ContainerName(desired[1])) : TRUE]
           [] outcome = "err" ->
                rp' = [rp EXCEPT ![i].pc = "scan", ![i].idx = 1, ![i].latest = 0]
    /\ UNCHANGED <<nonRace, ctr, blacklist>>

\* One turn of pass i's inner loop up to the look-up in the blacklist map,
\* which begins here; a write by another pass may be under way.
RaceScan(i) ==
    /\ RaceAlive
    /\ rp[i].pc = "scan"
    /\ IF rp[i].idx > Len(rp[i].snap)
       THEN rp' = [rp EXCEPT ![i] = IdleReaper]
       ELSE LET c == ReaperAt(i)
                cfg == desired[1]
            IN IF IsContainerVersion(cfg, ctr[c].name) /\ ctr[c].image = cfg.image
                     /\ rp[i].latest = 0
               THEN rp' = Crashed
               ELSE IF Eligible(c, cfg, rp[i].latest, 0, now)
               THEN rp' = [rp EXCEPT ![i].pc = "reading",
                             ![i].raced = \E j \in Reapers \ {i} : rp[j].pc = "writing"]
               ELSE rp' = ReaperNext(i)
    /\ UNCHANGED <<nonRace, ctr, blacklist>>

\* The look-up ends.  One that overlapped a write is a data race: it finds
\* the id or not, or the runtime ends the process.
RaceReadEnd(i) ==
    /\ RaceAlive
    /\ rp[i].pc = "reading"
    /\ \/ \E listed \in (IF rp[i].raced THEN BOOLEAN ELSE {ReaperAt(i) \in blacklist}) :
            rp' = IF listed THEN ReaperNext(i)
                  ELSE [rp EXCEPT ![i].pc = "wait", ![i].raced = FALSE]
       \/ rp[i].raced /\ rp' = Crashed
    /\ UNCHANGED <<nonRace, ctr, blacklist>>

\* The select of pass i: the stop answers without error, with an error, or
\* the 20 seconds are over.
RaceStop(i) ==
    /\ RaceAlive
    /\ rp[i].pc = "wait"
    /\ \/ /\ ctr[ReaperAt(i)].state = "running"
          /\ ctr' = [ctr EXCEPT ![ReaperAt(i)].state = "created"]
          /\ rp' = [rp EXCEPT ![i].pc = "remove"]
       \/ rp' = ReaperNext(i) /\ UNCHANGED ctr
       \/ rp' = [rp EXCEPT ![i].pc = "write"] /\ UNCHANGED ctr
    /\ UNCHANGED <<nonRace, blacklist>>

\* RemoveContainer with volumes; its result is not looked at.
RaceRemove(i) ==
    /\ RaceAlive
    /\ rp[i].pc = "remove"
    /\ \/ UNCHANGED ctr
       \/ /\ ctr[ReaperAt(i)].state \in {"created", "running"}
          /\ ctr' = [ctr EXCEPT ![ReaperAt(i)].state = "removed"]
    /\ rp' = ReaperNext(i)
    /\ UNCHANGED <<nonRace, blacklist>>

\* The write of the id into the blacklist map begins: it overlaps the
\* look-ups and writes other passes have under way.
RaceWriteBegin(i) ==
    /\ RaceAlive
    /\ rp[i].pc = "write"
    /\ rp' = [j \in Reapers |->
                IF j = i
                THEN [rp[i] EXCEPT !.pc = "writing",
                                   !.raced = \E k \in Reapers \ {i} : rp[k].pc = "writing"]
                ELSE IF rp[j].pc \in {"reading", "writing"}
                     THEN [rp[j] EXCEPT !.raced = TRUE]
                     ELSE rp[j]]
    /\ UNCHANGED <<nonRace, ctr, blacklist>>

\* The write ends.  One that overlapped another write is a data race: the
\* id is in the map or not, or the runtime ends the process.
RaceWriteEnd(i) ==
    /\ RaceAlive
    /\ rp[i].pc = "writing"
    /\ \/ /\ blacklist' = blacklist \cup {ReaperAt(i)}
          /\ rp' = ReaperNext(i)
       \/ /\ rp[i].raced
          /\ UNCHANGED blacklist
          /\ rp' = ReaperNext(i)
       \/ /\ rp[i].raced
          /\ UNCHANGED blacklist
          /\ rp' = Crashed
    /\ UNCHANGED <<nonRace, ctr>>

\* The passes of one process.
NextRace ==
    \E i \in Reapers :
        \/ RaceList(i)
        \/ RaceInspectLatest(i)
        \/ RaceScan(i)
        \/ RaceReadEnd(i)
        \/ RaceStop(i)
        \/ RaceRemove(i)
        \/ RaceWriteBegin(i)
        \/ RaceWriteEnd(i)

\* -------------------------------------------------------------- listing
\* No ListRegistrations call under way and none made.
IdleLister ==
    [pc |-> "idle", rev |-> "none", keysLeft |-> <<>>, keys |-> {}, failed |-> {},
     regList |-> <<>>, err |-> FALSE]

\* A backend without registrations.
InitList ==
    /\ recs = [k \in RegKeys |-> "absent"]
    /\ lr = IdleLister

\* A host stores a registration at key k, or something that is no
\* registration's JSON.
WriteRecord(k, what) ==
    /\ recs[k] # what
    /\ recs' = [recs EXCEPT ![k] = what]
    /\ UNCHANGED <<nonList, lr>>

\* The key is deleted or expires.
RemoveRecord(k) ==
    /\ recs[k] # "absent"
    /\ recs' = [recs EXCEPT ![k] = "absent"]
    /\ UNCHANGED <<nonList, lr>>

\* ListRegistrations of revision rev begins: Keys on the pattern.
ListKeys(rev) ==
    /\ lr.pc = "idle"
    /\ \/ lr' = [IdleLister EXCEPT !.rev = rev, !.err = TRUE]
       \/ \E order \in Orderings({k \in RegKeys : recs[k] # "absent"}) :
             lr' = [IdleLister EXCEPT !.rev = rev,
                       !.pc = IF order = <<>> THEN "idle" ELSE "get",
                       !.keysLeft = order,
                       !.keys = {order[i] : i \in 1..Len(order)}]
    /\ UNCHANGED <<nonList, recs>>

\* What a failure on a key does to the call: the first revision in the
\* source logs it and goes on, the second returns the error and no list.
SkipsFailures(rev) == rev = "part_000"

\* The call has dealt with the head of its keys.
ListAdvance(r) ==
    [r EXCEPT !.keysLeft = Tail(@), !.pc = IF Len(r.keysLeft) = 1 THEN "idle" ELSE "get"]

\* Get of the next key's location and its decoding.  The Get may fail; a
\* value that is no JSON, the empty value of a key gone since the
\* enumeration included, fails to decode.
ListGet ==
    /\ lr.pc = "get"
    /\ LET k == Head(lr.keysLeft)
       IN \E parsed \in {FALSE} \cup (IF recs[k] = "good" THEN {TRUE} ELSE {}) :
            IF parsed
            THEN lr' = ListAdvance([lr EXCEPT !.regList = Append(@, k)])
            ELSE IF SkipsFailures(lr.rev)
                 THEN lr' = ListAdvance([lr EXCEPT !.failed = @ \cup {k}])
                 ELSE lr' = [lr EXCEPT !.pc = "idle", !.keysLeft = <<>>,
                                       !.failed = @ \cup {k}, !.regList = <<>>,
                                       !.err = TRUE]
    /\ UNCHANGED <<nonList, recs>>

\* The lister and the writers of registrations.
NextList ==
    \/ \E rev \in Revisions : ListKeys(rev)
    \/ ListGet
    \/ \E k \in RegKeys, what \in {"good", "garbled"} : WriteRecord(k, what)
    \/ \E k \in RegKeys : RemoveRecord(k)

\* ----------------------------------------------------------- subscriber
\* subscribeChanges is about to ask its pool for the first connection.
InitSub ==
    /\ subPc = "get"
    /\ recvPc = "none"
    /\ subscribePc = "none"
    /\ conn = "none"
    /\ subscribed = FALSE
    /\ deferred = 0
    /\ inbox = <<>>

\* redisPool.Get with its deferred Close.  A connection in error is closed and
\* the loop goes to its sleep; a good one gets the two tasks and wg.Wait.
SubGet ==
    /\ subPc = "get"
    /\ deferred < MaxConns
    /\ deferred' = deferred + 1
    /\ subscribed' = FALSE
    /\ \/ /\ conn' = "closed"
          /\ subPc' = "backoff"
          /\ UNCHANGED <<recvPc, subscribePc>>
       \/ /\ conn' = "open"
          /\ subPc' = "wait"
          /\ recvPc' = "receive"
          /\ subscribePc' = "subscribe"
    /\ UNCHANGED <<nonSub, inbox>>

\* time.Sleep(5 * time.Second) after a connection in error.
SubBackoff ==
    /\ subPc = "backoff"
    /\ subPc' = "reconnect"
    /\ UNCHANGED <<nonSub, recvPc, subscribePc, conn, subscribed, deferred, inbox>>

\* r.reconnectRedis(), then continue.
SubReconnect ==
    /\ subPc = "reconnect"
    /\ subPc' = "get"
    /\ UNCHANGED <<nonSub, recvPc, subscribePc, conn, subscribed, deferred, inbox>>

\* wg.Wait returns when both tasks are done; the loop asks for a connection.
SubWaitDone ==
    /\ subPc = "wait"
    /\ recvPc = "done"
    /\ subscribePc = "done"
    /\ subPc' = "get"
    /\ recvPc' = "none"
    /\ subscribePc' = "none"
    /\ UNCHANGED <<nonSub, conn, subscribed, deferred, inbox>>

\* psc.Subscribe("galaxy"), its error dropped.  A failed write leaves the
\* connection in error.
SubscribeCall ==
    /\ subscribePc = "subscribe"
    /\ subscribePc' = "done"
    /\ \/ conn = "open" /\ subscribed' = TRUE /\ UNCHANGED conn
       \/ conn = "open" /\ conn' = "broken" /\ UNCHANGED subscribed
       \/ conn # "open" /\ UNCHANGED <<conn, subscribed>>
    /\ UNCHANGED <<nonSub, subPc, recvPc, deferred, inbox>>

\* notifyChanged, or another publisher: PUBLISH on "galaxy".  The server
\* sends the payload to the subscription if there is one.
Publish(payload) ==
    /\ conn = "open"
    /\ subscribed
    /\ Len(inbox) < MaxInbox
    /\ inbox' = Append(inbox, payload)
    /\ UNCHANGED <<nonSub, subPc, recvPc, subscribePc, conn, subscribed, deferred>>

\* psc.Receive returns a message: on "config" the task calls
\* CheckForChangesNow, any other payload it logs and drops.
ReceiveMessage ==
    /\ recvPc = "receive"
    /\ conn = "open"
    /\ inbox # <<>>
    /\ inbox' = Tail(inbox)
    /\ recvPc' = IF Head(inbox) = "config" THEN "sending" ELSE "receive"
    /\ UNCHANGED <<nonSub, subPc, subscribePc, conn, subscribed, deferred>>

\* The polling loop takes the trigger: CheckForChangesNow returns.
ReceiveTrigger ==
    /\ recvPc = "sending"
    /\ recvPc' = "receive"
    /\ UNCHANGED <<nonSub, subPc, subscribePc, conn, subscribed, deferred, inbox>>

\* psc.Receive returns an error: psc.Close and the task returns.
ReceiveError ==
    /\ recvPc = "receive"
    /\ conn = "broken"
    /\ conn' = "closed"
    /\ recvPc' = "done"
    /\ inbox' = <<>>
    /\ UNCHANGED <<nonSub, subPc, subscribePc, subscribed, deferred>>

\* The network or the server drops the connection.
ConnectionBreaks ==
    /\ conn = "open"
    /\ conn' = "broken"
    /\ subscribed' = FALSE
    /\ UNCHANGED <<nonSub, subPc, recvPc, subscribePc, deferred, inbox>>

\* subscribeChanges, its two tasks and the connection.
NextSub ==
    \/ SubGet
    \/ SubBackoff
    \/ SubReconnect
    \/ SubWaitDone
    \/ SubscribeCall
    \/ \E payload \in Payloads : Publish(payload)
    \/ ReceiveMessage
    \/ ReceiveTrigger
    \/ ReceiveError
    \/ ConnectionBreaks

\* ----------------------------------------------------- specifications
\* A registry nobody has written to, for the state machines that leave it alone.
QuietRegistry ==
    /\ poolSet = {}
    /\ assign = [p \in Pools |-> {}]
    /\ appCfg = [a \in Apps |-> 0]
    /\ idClock = 0
    /\ cl = [c \in Clients |-> IdleClient]

\* A host that watches nothing.
QuietWatch ==
    /\ InitWatch
    /\ svcId = [a \in WatchApps |-> 0]

Init == InitRegistry /\ QuietWatch /\ InitRuntime /\ InitLease /\ InitSub /\ QuietRace /\ InitList

Next == NextRegistry

Spec == Init /\ [][Next]_vars

InitAppsSpec == InitApps /\ QuietWatch /\ InitRuntime /\ InitLease /\ InitSub /\ QuietRace /\ InitList

SpecApps == InitAppsSpec /\ [][NextApps]_vars

InitWatchSpec == QuietRegistry /\ InitWatch /\ InitRuntime /\ InitLease /\ InitSub /\ QuietRace /\ InitList

SpecWatch == InitWatchSpec /\ [][NextWatch]_vars

SpecWatchFair == InitWatchSpec /\ [][NextWatch]_vars /\ FairWatch

SpecWatchStop == InitWatchSpec /\ [][NextWatch]_vars /\ FairTicker

SpecWatchLive == InitWatchSpec /\ [][NextWatch]_vars /\ FairChannel

InitStartSpec == QuietRegistry /\ QuietWatch /\ InitRuntime /\ InitLease /\ InitSub /\ QuietRace /\ InitList

SpecStart == InitStartSpec /\ [][NextStart]_vars

InitReapSpec == QuietRegistry /\ QuietWatch /\ InitReap /\ InitLease /\ InitSub /\ QuietRace /\ InitList

SpecReap == InitReapSpec /\ [][NextReap]_vars

InitLeaseSpec == QuietRegistry /\ QuietWatch /\ InitRuntime /\ InitLease /\ InitSub /\ QuietRace /\ InitList

SpecLease == InitLeaseSpec /\ [][NextLease]_vars

InitSubSpec == QuietRegistry /\ QuietWatch /\ InitRuntime /\ InitLease /\ InitSub /\ QuietRace /\ InitList

SpecSubscribe == InitSubSpec /\ [][NextSub]_vars

InitRaceSpec == QuietRegistry /\ QuietWatch /\ InitRace /\ InitLease /\ InitSub /\ InitList

SpecRace == InitRaceSpec /\ [][NextRace]_vars

InitListSpec ==
    QuietRegistry /\ QuietWatch /\ InitRuntime /\ InitLease /\ InitSub /\ QuietRace /\ InitList

SpecList == InitListSpec /\ [][NextList]_vars

\* ------------------------------------------------------ registry claims

\* C1: in every reachable state a pool whose assignment set is non-empty is
\* still a member of the environment's pool set.
C1_AssignedPoolExists ==
    \A p \in Pools : assign[p] # {} => p \in poolSet

\* Client c takes the first step of a DeletePool call.
DeletePoolBegins(c) ==
    /\ cl[c].pc = "idle"
    /\ cl'[c] # cl[c]
    /\ cl'[c].op = "DeletePool"

\* DeletePool's listing was non-empty: the call returns false and neither the
\* pool set nor any assignment set changes.
DeletePoolRefused(c) ==
    (DeletePoolBegins(c) /\ assign[cl'[c].pool] # {}) =>
        /\ cl'[c].pc = "idle"
        /\ ~cl'[c].ok
        /\ poolSet' = poolSet
        /\ assign' = assign

\* C2 as stated: DeletePool returns false and changes nothing when the pool's
\* assignment list is non-empty; when the list is empty and the pool exists it
\* returns true and the pool is no longer in the pool set.
C2_DeletePoolAsStated ==
    [][\A c \in Clients :
          /\ DeletePoolRefused(c)
          /\ (DeletePoolBegins(c) /\ assign[cl'[c].pool] = {}) => cl'[c].pc = "dp_remove"
          /\ (cl[c].pc = "dp_remove" /\ cl'[c] # cl[c] /\ cl[c].pool \in poolSet) =>
                 (cl'[c].ok /\ cl[c].pool \notin poolSet')]_vars

\* C2 amended: as stated, except that a failed backend call ends DeletePool
\* with false and the error, the pool set unchanged.
C2_DeletePoolContract ==
    [][\A c \in Clients :
          /\ DeletePoolRefused(c)
          /\ (DeletePoolBegins(c) /\ assign[cl'[c].pool] = {}) =>
                 \/ cl'[c].pc = "dp_remove"
                 \/ cl'[c].pc = "idle" /\ cl'[c].err /\ ~cl'[c].ok /\ poolSet' = poolSet
          /\ (cl[c].pc = "dp_remove" /\ cl'[c] # cl[c]) =>
                 \/ /\ ~cl'[c].err
                    /\ cl'[c].ok = (cl[c].pool \in poolSet)
                    /\ cl[c].pool \notin poolSet'
                 \/ cl'[c].err /\ ~cl'[c].ok /\ poolSet' = poolSet]_vars

\* One DeletePool was refused because the pool had an app, and a DeletePool of
\* the same pool has since returned true, the pool being gone.
C2_Witness ==
    \E c, d \in Clients :
        /\ cl[c].pc = "idle" /\ cl[c].op = "DeletePool" /\ cl[c].found
        /\ ~cl[c].ok /\ ~cl[c].err
        /\ cl[d].pc = "idle" /\ cl[d].op = "DeletePool" /\ cl[d].ok
        /\ cl[d].pool = cl[c].pool
        /\ cl[d].pool \notin poolSet

\* --------------------------------------------------------- watch claims

\* The seeding pass is over.
SeedingDone == ppc \notin {"seed_keys", "seed_get", "seed_error"}

\* A polling pass has just ended, cfgs being what it listed.
PassEnded == ppc = "wait" /\ polled

\* The version id the last listing holds for app a, 0 when it does not list a.
ListedId(a) ==
    IF \E i \in 1..Len(cfgs) : cfgs[i].name = a
    THEN (CHOOSE c \in {cfgs[i] : i \in 1..Len(cfgs)} : c.name = a).id
    ELSE 0

\* C3: after the seeding pass, a polling pass sends exactly one change event
\* for each listed app whose version id differs from the one remembered at the
\* last poll and none for any other app; the version remembered after a send
\* is the one sent.
C3_OneEventPerTransition ==
    /\ PassEnded =>
          \A a \in WatchApps :
              /\ sentInPass[a] =
                     IF ListedId(a) # 0 /\ ListedId(a) # prevVersion[a] THEN 1 ELSE 0
              /\ ListedId(a) # 0 => lastVersion[a] = ListedId(a)
    /\ ppc = "send" =>
          /\ lastVersion[cfgs[pos].name] = cfgs[pos].id
          /\ cfgs[pos].id # prevVersion[cfgs[pos].name]
          /\ sentInPass[cfgs[pos].name] = 1
    /\ ~SeedingDone => \A a \in WatchApps : sentInPass[a] = 0 /\ lastDelivered[a] = 0

\* A pass has sent one event for an app whose version moved on from one seen
\* before, and an earlier event of that app had been received.
C3_Witness ==
    /\ PassEnded
    /\ \E a \in WatchApps :
          /\ sentInPass[a] = 1
          /\ prevVersion[a] # 0
          /\ lastDelivered[a] = lastVersion[a]
          /\ lastVersion[a] > prevVersion[a]

\* A pass has ended with a listed app unchanged and no event sent for it.
C3_WitnessUnchanged ==
    /\ PassEnded
    /\ \E a \in WatchApps : ListedId(a) # 0 /\ ListedId(a) = prevVersion[a] /\ sentInPass[a] = 0

\* C4: under fairness, once the seeding pass is over, a stored version of an
\* app that the poll loop has not remembered leads to a change event with
\* that version being received, unless the app is written or deleted again or
\* the ticker is stopped first.
C4_WriteEventuallyDelivered ==
    \A a \in WatchApps : \A v \in 1..MaxVersion :
        (SeedingDone /\ svcId[a] = v /\ lastVersion[a] # v)
            ~> (lastDelivered[a] = v \/ svcId[a] # v \/ stopSignal)

\* ------------------------------------------------------- runtime claims
\* Stop task t' has just issued its StopContainer.
IssuedNow(t) ==
    /\ t \in tasks'
    /\ t.phase = "issued"
    /\ [t EXCEPT !.phase = "spawned", !.target = 0] \in tasks

\* C5: when the wait for a stop ends without an answer the container's id is
\* put on the blacklist; no stop task is spawned for a blacklisted id, no stop
\* task issues a stop for a blacklisted id other than the one it was spawned
\* for, no remove is issued for a blacklisted id; the blacklist never shrinks.
C5_BlacklistRespected ==
    [][/\ blacklist \subseteq blacklist'
       /\ (/\ ag.pc = "reap_wait"
           /\ ag'.pc # "reap_wait"
           /\ \A t \in CurrentTask : t.phase \in {"spawned", "issued"})
            => ag.snap[ag.idx] \in blacklist'
       /\ (ag.pc = "reap_scan" /\ ag'.pc = "reap_wait") => ag.snap[ag.idx] \notin blacklist
       /\ \A t \in tasks' \ tasks :
            (IssuedNow(t) /\ t.target # t.for) => t.target \notin blacklist
       /\ ag'.pc = "reap_remove" => ag'.snap[ag'.idx] \notin blacklist']_vars

\* C6: every stop issued by a stop task, and every remove, is for a container
\* that passes the inner loop's test against the config and the latest
\* container of the pass that spawned it: of the app, of the same image, not
\* the latest, older than the cutoff.
C6_OnlySupersededStopped ==
    /\ \A t \in tasks :
         t.phase = "issued" => Eligible(t.target, t.cfg, t.latest, t.cutoff, now)
    /\ ag.pc = "reap_remove" =>
         Eligible(ag.snap[ag.idx], Head(ag.cfgsLeft), ag.latest, ag.cutoff, now)

\* The last two calls were StartIfNotRunning with the same config, and no
\* container of the expected name existed before the first.
TwiceInSuccession ==
    /\ hist.prev.kind = "start"
    /\ hist.last.kind = "start"
    /\ hist.prev.cfg = hist.last.cfg
    /\ hist.prev.fresh

UpgradeCall ==
    /\ hist.last.kind = "start"
    /\ hist.last.fresh
    /\ hist.last.other

\* C8 as stated: the call creates the new container and returns changed=true.
C8_UpgradeAsStated ==
    UpgradeCall => hist.last.changed /\ hist.last.created = 1

\* The config of the call the agent is in, or enters or leaves in this step.
CallCfg == IF ag.pc = "idle" THEN ag'.cfg ELSE ag.cfg

\* C8: an upgrade call returns changed=true; when it returns no error it has
\* created a container named for the new version and seen it running; no step
\* of StartIfNotRunning or Start changes a container of another name, spawns
\* a stop task or touches the blacklist.
C8_Upgrade ==
    /\ [](UpgradeCall =>
            /\ hist.last.changed
            /\ ~hist.last.err =>
                 /\ hist.last.created = 1
                 /\ ctr[hist.last.handle].name = ContainerName(hist.last.cfg)
                 /\ ctr[hist.last.handle].state # "none")
    /\ [][(ag' # ag \/ hist' # hist) =>
            /\ \A c \in Cids :
                 (ctr[c].state # "none" /\ ctr[c].name # ContainerName(CallCfg))
                    => ctr'[c] = ctr[c]
            /\ tasks' = tasks
            /\ blacklist' = blacklist]_vars

C8_Witness ==
    /\ UpgradeCall
    /\ ~hist.last.err
    /\ hist.last.created = 1
    /\ \E c \in Cids : /\ ctr[c].state = "running"
                       /\ ctr[c].name[1] = hist.last.cfg.name
                       /\ ctr[c].name[2] < hist.last.cfg.id

\* --------------------------------------------------------- lease claims
\* No RegisterService or UnRegisterService call is under way.
NoCallUnderWay == \A c \in Registrars : lp[c].pc \in {"idle", "stopped"}

\* C9: between the calls, a registration is retrievable exactly when a
\* RegisterService returned one less than LeaseTTL seconds ago and no
\* unregistration has deleted it since.
C9_RetrievableWithinLease ==
    NoCallUnderWay =>
        (Retrievable <=> (lastReg # NoTime /\ lnow < lastReg + LeaseTTL))

\* C10: the registration key, when present, carries an expiry.
C10_KeyCarriesTTL == store.present => store.expireAt # 0

\* UnRegisterService for container c deletes the key in this step.
Deletes(c) ==
    /\ lp[c].pc = "unreg_delete"
    /\ lp'[c].pc = "idle"
    /\ store.present
    /\ ~store'.present

\* C11: UnRegisterService for container c deletes only a registration whose
\* stored container id is c's; a registration of another container stays.
C11_DeletesOwnRegistrationOnly ==
    [][\A c \in Registrars : Deletes(c) => store.cid = c]_vars

\* ------------------------------------------------- registry claims, apps
\* Client c's CreateApp returns true in this step.
CreateAppSucceeds(c) ==
    /\ cl[c].pc = "ca_set"
    /\ cl'[c].pc = "idle"
    /\ cl'[c].ok

\* Client c's CreateApp begins in this step, for an app that is stored.
CreateAppAgain(c) ==
    /\ cl[c].pc = "idle"
    /\ cl'[c] # cl[c]
    /\ cl'[c].op = "CreateApp"
    /\ appCfg[cl'[c].app] # 0

\* C12: when CreateApp returns true the app is stored; a CreateApp for an app
\* that is stored returns false and leaves every stored config, its version
\* id included, as it was.
C12_CreateAppOnce ==
    [][\A c \in Clients :
         /\ CreateAppSucceeds(c) => appCfg'[cl[c].app] # 0
         /\ CreateAppAgain(c) =>
              /\ cl'[c].pc = "idle"
              /\ ~cl'[c].ok
              /\ appCfg' = appCfg
              /\ idClock' = idClock]_vars

C12_Witness ==
    \E c, d \in Clients :
        /\ cl[c].pc = "idle" /\ cl[c].op = "CreateApp" /\ cl[c].ok
        /\ cl[d].pc = "idle" /\ cl[d].op = "CreateApp" /\ ~cl[d].ok /\ ~cl[d].err
        /\ cl[d].app = cl[c].app
        /\ appCfg[cl[c].app] = 1

\* C13: every app in some pool's assignment set has a stored ServiceConfig.
C13_AssignedAppStored ==
    \A p \in Pools : \A a \in assign[p] : appCfg[a] # 0

\* Client c's DeleteApp removes the app's config in this step.
DeleteAppRemoves(c) ==
    /\ cl[c].pc = "da_del"
    /\ appCfg[cl[c].app] # 0
    /\ appCfg'[cl[c].app] = 0

\* Client c's DeleteApp returns in this step.
DeleteAppReturns(c) ==
    /\ cl[c].op = "DeleteApp"
    /\ cl[c].pc # "idle"
    /\ cl'[c].pc = "idle"

\* C14: DeleteApp removes the config only of an app that is in no pool's
\* assignment set; a DeleteApp that found the app in a pool returns false and
\* leaves the config stored; a DeleteApp that finds no config returns true,
\* without an error, and changes nothing.  A failed backend call ends it with
\* false and the error.
C14_DeleteAppContract ==
    [][\A c \in Clients :
         /\ DeleteAppRemoves(c) => \A p \in Pools : cl[c].app \notin assign[p]
         /\ (DeleteAppReturns(c) /\ cl'[c].found) =>
                ~cl'[c].ok /\ appCfg' = appCfg
         /\ (DeleteAppReturns(c) /\ cl[c].pc = "da_get" /\ ~cl'[c].err) =>
                cl'[c].ok /\ appCfg' = appCfg /\ assign' = assign]_vars

\* Client c takes a step of an AssignApp or UnassignApp call.
AssignmentStep(c) ==
    /\ cl'[c] # cl[c]
    /\ cl'[c].op \in {"AssignApp", "UnassignApp"}

\* The step of c's call is one that cannot change the membership: AssignApp
\* finds the app or the pool missing or the app in the pool already,
\* UnassignApp finds the app not in the pool.
CannotChange(c) ==
    \/ cl[c].pc = "idle" /\ cl'[c].op = "AssignApp" /\ appCfg[cl'[c].app] = 0
    \/ cl[c].pc = "aa_pool" /\ cl[c].pool \notin poolSet
    \/ cl[c].pc = "aa_add" /\ cl[c].app \in assign[cl[c].pool]
    \/ cl[c].pc = "idle" /\ cl'[c].op = "UnassignApp"
          /\ cl'[c].app \notin assign[cl'[c].pool]

\* C15: a step of AssignApp or UnassignApp that cannot change the membership
\* leaves every assignment set as it was and the call's result false, and the
\* call ends there or goes on to its notification only; the result a call
\* returns after its notification is the one its membership step left.
C15_NoChangeReturnsFalse ==
    [][\A c \in Clients : AssignmentStep(c) =>
         /\ CannotChange(c) =>
              /\ assign' = assign
              /\ ~cl'[c].ok
              /\ cl'[c].pc \in {"idle", "aa_notify"}
         /\ cl[c].pc \in {"aa_notify", "ua_notify"} =>
              /\ cl'[c].pc = "idle"
              /\ cl'[c].ok = cl[c].ok
              /\ assign' = assign]_vars

\* An AssignApp of an app already in the pool has returned false.
C15_Witness ==
    \E c \in Clients :
        /\ cl[c].pc = "idle" /\ cl[c].op = "AssignApp"
        /\ cl[c].notified /\ ~cl[c].ok /\ ~cl[c].err
        /\ cl[c].app \in assign[cl[c].pool]

\* C16: the step of an AssignApp or UnassignApp call that changes a pool's
\* assignment set leads to the call's NotifyRestart and not to its return,
\* and a call that returns after having changed the set has made its
\* NotifyRestart call for its app.
C16_ChangeNotifiesBeforeReturn ==
    [][\A c \in Clients : AssignmentStep(c) =>
         /\ assign' # assign =>
              /\ cl'[c].pc \in {"aa_notify", "ua_notify"}
              /\ ~cl'[c].notified
         /\ (cl[c].pc \in {"aa_notify", "ua_notify"} /\ cl[c].ok) =>
              /\ cl'[c].pc = "idle"
              /\ cl'[c].notified
              /\ cl'[c].app = cl[c].app]_vars

\* An AssignApp that added its app to the pool has returned.
C16_Witness ==
    \E c \in Clients :
        /\ cl[c].pc = "idle" /\ cl[c].op = "AssignApp"
        /\ cl[c].ok /\ cl[c].notified

\* The polling task is in its first loop, the one that seeds lastVersion.
Seeding == ppc \in {"seed_keys", "seed_get", "seed_error"}

\* The step blocks the polling task on the send of a change event.
EmitsChange == ppc' = "send" /\ (ppc # "send" \/ pos' # pos)

\* C17: a step of the seeding loop emits no change event; the remembered
\* version of an app changes only when the seeding loop ends or with a change
\* event of that app carrying the new version; and a change event carries a
\* version different from the remembered one, which is the seeded one as long
\* as no event of the app was emitted.
C17_SeedingEmitsNoChange ==
    [][/\ Seeding =>
            /\ ~EmitsChange
            /\ sentInPass' = sentInPass
            /\ lastDelivered' = lastDelivered
       /\ \A a \in WatchApps : lastVersion'[a] # lastVersion[a] =>
            \/ Seeding /\ ppc' = "wait"
            \/ /\ EmitsChange
               /\ cfgs'[pos'].name = a
               /\ cfgs'[pos'].id = lastVersion'[a]
       /\ EmitsChange => cfgs'[pos'].id # lastVersion[cfgs'[pos'].name]]_vars

\* An app was seeded and a polling pass has ended with no event of it.
C17_Witness ==
    /\ ppc = "wait" /\ polled
    /\ \E a \in WatchApps :
          /\ svcId[a] # 0 /\ lastVersion[a] = svcId[a]
          /\ lastDelivered[a] = 0 /\ sentInPass[a] = 0

\* subscribeChanges goes to ask its pool for a connection again.
AsksAgain == subPc' = "get" /\ subPc # "get"

\* C18: subscribeChanges asks for a connection again only with the old one
\* closed and after its backoff sleep and its reconnect, wherever the
\* connection error was met.
C18_BackoffBeforeResubscribe ==
    [][AsksAgain => (subPc = "reconnect" /\ conn = "closed")]_vars

\* C19: once the stop signal is given the ticker task eventually returns,
\* with no assumption on the consumer of the changes channel (the end of the
\* process ends the ticker too).
C19_StopEventuallyTaken == stopSignal ~> (tpc = "stopped" \/ ~Alive)

\* Start creates a container in this step.
StartCreates ==
    /\ ag.pc = "start_create"
    /\ \E c \in Cids : ctr[c].state = "none" /\ ctr'[c].state # "none"

\* Start takes one of its state polls in this step.
StartPolled == ag.pc = "start_poll" /\ ag' # ag

\* C20: Start creates a container only when none has the expected name; a
\* state poll either goes on to the next poll or ends the call, with the
\* handle and no error only at the last poll and with the container running,
\* and otherwise (not running, or the inspection failed) with an error and no
\* handle.
C20_StartPollContract ==
    [][/\ StartCreates => Named(ContainerName(ag.cfg)) = {}
       /\ StartPolled =>
            \/ /\ ag'.pc = "start_poll"
               /\ ctr[ag.handle].state = "running"
               /\ ag.polls + 1 < StartPolls
            \/ /\ ag'.pc = "idle"
               /\ hist'.last.handle = ag.handle
               /\ ~hist'.last.err
               /\ ctr[ag.handle].state = "running"
               /\ ag.polls + 1 = StartPolls
            \/ /\ ag'.pc = "idle"
               /\ hist'.last.handle = 0
               /\ hist'.last.err]_vars

\* The container the inner loop of the pass is at.
AtContainer == ag.snap[ag.idx]

\* The inner loop goes on to its next entry with the engine left as it is.
MovesOn ==
    /\ ag'.pc = "reap_scan"
    /\ ag'.idx = ag.idx + 1
    /\ ctr' = ctr

\* C21: the pass goes to the removal of a container only from the wait whose
\* stop task stopped that container and answered without error, and only the
\* pass's removal removes a container, never a blacklisted one; when the wait
\* expires the container is blacklisted and the loop moves on; when the stop
\* answers with an error the loop moves on with the blacklist as it was and
\* the container not on it.
C21_RemoveOnlyAfterStop ==
    [][/\ (ag'.pc = "reap_remove" /\ ag.pc # "reap_remove") =>
            /\ ag.pc = "reap_wait"
            /\ ag'.snap[ag'.idx] = AtContainer
            /\ \E t \in CurrentTask :
                  t.phase = "ok" /\ t.target = AtContainer /\ t.for = AtContainer
            /\ ctr[AtContainer].state # "running"
       /\ \A c \in Cids : (ctr'[c].state = "removed" /\ ctr[c].state # "removed") =>
            /\ ag.pc = "reap_remove"
            /\ c = AtContainer
            /\ c \notin blacklist
       /\ (ag.pc = "reap_wait" /\ blacklist' # blacklist) =>
            /\ blacklist' = blacklist \cup {AtContainer}
            /\ MovesOn
       /\ (ag.pc = "reap_wait" /\ ag' # ag /\ \E t \in CurrentTask : t.phase = "err"
               /\ blacklist' = blacklist) =>
            /\ MovesOn
            /\ AtContainer \notin blacklist']_vars

\* One container was removed by a pass and another is blacklisted.
C21_Witness ==
    /\ \E c \in Cids : ctr[c].state = "removed"
    /\ \E c \in blacklist : ctr[c].state # "removed"

\* C22: no write of one pass to the blacklist map is under way at the same
\* time as a look-up or a write of another pass.
C22_BlacklistSerialized ==
    \A i, j \in Reapers :
        (i # j /\ rp[i].pc = "writing") => rp[j].pc \notin {"reading", "writing"}

\* PullImage has made its first InspectImage in this step.
ImageInspected == ag.pc = "start_image" /\ ag' # ag

\* C23: PullImage goes on to the engine's pull exactly when the image is not
\* there locally; a pull that fails ends Start with the error and no handle,
\* and a Start that ended so has created and started no container.
C23_PullsExactlyWhenAbsent ==
    [][/\ ImageInspected =>
            (ag'.pc = "start_pull" <=> ag.cfg.image \notin images)
       /\ (ag.pc = "start_pull" /\ ag'.pc = "idle") =>
            /\ hist'.last.err
            /\ hist'.last.handle = 0
            /\ hist'.last.created = 0
            /\ ctr' = ctr
            /\ images' = images]_vars

\* The ListRegistrations call returns in this step, its Keys call having
\* succeeded.
ListReturns == lr.pc = "get" /\ lr'.pc = "idle"

\* C24: a ListRegistrations whose enumeration succeeded returns without
\* error, and its list holds exactly the enumerated keys whose record was
\* read and decoded, each once.
C24_ListSkipsUnreadable ==
    [][ListReturns =>
         /\ ~lr'.err
         /\ {lr'.regList[i] : i \in 1..Len(lr'.regList)} = lr'.keys \ lr'.failed
         /\ Len(lr'.regList) = Cardinality(lr'.keys \ lr'.failed)]_vars

\* ListApps is fetching the configs of the keys it enumerated.
Fetching == ppc \in {"seed_get", "poll_get"}

\* C25: once ListApps has enumerated the keys, no failure to load one app's
\* config makes the call return an error: the loop that called it is not
\* handed one.
C25_ListAppsSkipsFailures ==
    [][Fetching => ppc' \notin {"seed_error", "poll_error"}]_vars

\* The pass spawns a stop task for the container it is at.
SpawnsStop == ag.pc = "reap_scan" /\ ag'.pc = "reap_wait"

\* The container named for the config the pass is at is running.
LatestRunning ==
    \E c \in Named(ContainerName(Head(ag.cfgsLeft))) : ctr[c].state = "running"

\* C26: a pass spawns the stop of a container of an app only while the
\* app's latest container is running.
C26_StopsOnlyWithLatestRunning == [][SpawnsStop => LatestRunning]_vars

\* The pass is in the inner loop of an app whose latest container it could
\* not inspect, for an error other than no-such-container.
ScansAfterFailedInspect == ag.pc = "reap_scan" /\ ag.latest = 0

\* C27: after such an inspection the pass only walks on through its
\* snapshot and to the next app: it does not panic and spawns no stop.
C27_FailedInspectHarmless ==
    [][(ScansAfterFailedInspect /\ ag' # ag) =>
          ag'.pc \in {"reap_scan", "reap_latest"}]_vars

\* A StartIfNotRunning call returns without error in this step.
StartReturnsClean ==
    /\ hist' # hist
    /\ hist'.last.kind = "start"
    /\ ~hist'.last.err

\* C28: when StartIfNotRunning returns without error, a container with the
\* name expected for the call's config is running.
C28_CleanReturnMeansRunning ==
    [][StartReturnsClean =>
         \E c \in Cids : /\ ctr'[c].name = ContainerName(hist'.last.cfg)
                          /\ ctr'[c].state = "running"]_vars

\* C29: with a consumer that keeps receiving, a CheckForChangesNow the
\* ticker task or the subscriber's receive task is blocked in eventually
\* returns.
C29_CheckNowReturns ==
    /\ (tpc = "sending") ~> (tpc # "sending")
    /\ (spc = "sending") ~> (spc # "sending")

\* Client c's call makes its NotifyRestart call in this step.
Notifies(c) == ~cl[c].notified /\ cl'[c].notified

\* C30: an AssignApp or UnassignApp call makes its NotifyRestart call only
\* when its membership step changed the pool's assignment set.
C30_NotifiesOnlyOnChange ==
    [][\A c \in Clients : (AssignmentStep(c) /\ Notifies(c)) => cl[c].ok]_vars

\* ListApps is about to fetch the config of a key it enumerated whose config
\* DeleteApp has removed since the enumeration.
FetchesDeleted == Fetching /\ \E a \in keysLeft : svcId[a] = 0

\* C31: a config deleted between ListApps' enumeration of the keys and its
\* fetch of that config never ends the process that called ListApps: the
\* call goes on to the next key, returns its list or returns an error.
C31_ListAppsSurvivesDelete ==
    [][FetchesDeleted => ppc' # "crashed"]_vars

====
